---- MODULE Spec2Model ----
(***************************************************************************)
(* A state-machine model of geofence_script.py: create_geofence,           *)
(* simplify_geofence and save_geofence_to_poly, with meters_to_degrees as  *)
(* a pure operator.  One behaviour is one call of one of the three         *)
(* functions on an input drawn from a bounded set.                         *)
(*                                                                         *)
(* Floats are fixed-point integers: angular distances returned by          *)
(* meters_to_degrees are counted in 1/UnitsPerDegree of a degree, and the  *)
(* coordinates handed to the serializer are counted in 1/FormatUnit of the *)
(* last digit that "%.10f" prints.  The shapely primitives (buffer,        *)
(* linemerge, polygonize, simplify) are the library's: their results are   *)
(* chosen nondeterministically among the shapes the library can return.    *)
(* File I/O is assumed not to fail.                                        *)
(***************************************************************************)
EXTENDS Integers, Sequences, FiniteSets, TLC

\* ------------------------------------------------------------- bounds
MaxWaypoints == 3
MaxK == 2
MaxPolys == 2
MaxRing == 2

\* ---------------------------------------------------------- constants
\* meters_per_degree_latitude = 111045 (metres)
meters_per_degree_latitude == 111045
\* meters_per_degree_longitude = 87870.18 (metres), held in centimetres
meters_per_degree_longitude == 8787018
\* resolution of the angular values: units per degree
UnitsPerDegree == 10000
\* centimetres per metre, and the scale of CosPercent
Hundred == 100
\* internal coordinate units per unit of the 10th fractional digit
FormatUnit == 10

None == [type |-> "None", geoms |-> <<>>]
NoError == [kind |-> "none", stage |-> "none"]
Unbound == -1

\* ------------------------------------------------------------ inputs
\* Waypoints are (lon, lat) pairs in whole degrees; latitudes are multiples
\* of 20 so that every mean latitude is a multiple of 10.
Waypoints == {<<0, 0>>, <<1, 40>>, <<2, 60>>, <<3, -20>>}
BufferDistances == {50, 1000}

RECURSIVE SeqsUpTo(_, _)
SeqsUpTo(S, n) ==
    IF n = 0 THEN {<<>>}
    ELSE LET shorter == SeqsUpTo(S, n - 1)
         IN shorter \cup {Append(s, x) : s \in {t \in shorter : Len(t) = n - 1}, x \in S}

WaypointLists == SeqsUpTo(Waypoints, MaxWaypoints)

\* Serializer coordinates (lon, lat): the second differs from the first by
\* less than the printed resolution, the third prints differently.
Coords == {<<0, 0>>, <<1, 0>>, <<20, 30>>}
\* Rings of 1..MaxRing coordinates.  The first and the last coordinate range
\* over Coords; the vertices between them, which the code only prints, are
\* fixed.
Rings ==
    {r \in SeqsUpTo(Coords, MaxRing) \ {<<>>} :
        \A i \in 2..(Len(r) - 1) : r[i] = <<20, 30>>}
PolygonInputs == {[type |-> "Polygon", geoms |-> <<r>>] : r \in Rings}
MultiPolygonInputs == {[type |-> "MultiPolygon", geoms |-> g] : g \in SeqsUpTo(Rings, MaxPolys)}
OtherInputs == {[type |-> "LineString", geoms |-> <<>>], [type |-> "NoneType", geoms |-> <<>>]}
SaveInputs == PolygonInputs \cup MultiPolygonInputs \cup OtherInputs

Iota(n) == [i \in 1..n |-> i]
\* simplify_geofence reads only how many polygons its input holds
SimplifyInputs ==
    {[type |-> "Polygon", geoms |-> Iota(1)]}
    \cup {[type |-> "MultiPolygon", geoms |-> Iota(n)] : n \in 0..MaxPolys}

\* ---------------------------------------------------- meters_to_degrees
Abs(x) == IF x < 0 THEN -x ELSE x

\* 100 * cos(d degrees) for d = 0, 10, ..., 80
CosTable == <<100, 98, 94, 87, 77, 64, 50, 34, 17>>
CosPercent(latitude) == CosTable[(Abs(latitude) \div 10) + 1]

degrees_latitude(meters) == (meters * UnitsPerDegree) \div meters_per_degree_latitude

degrees_longitude(meters, latitude) ==
    (meters * Hundred * UnitsPerDegree)
        \div ((meters_per_degree_longitude * CosPercent(latitude)) \div Hundred)

meters_to_degrees(meters, latitude) ==
    <<degrees_latitude(meters), degrees_longitude(meters, latitude)>>

\* ------------------------------------------------------ create_geofence
NumSegmentsShort(wps) == IF Len(wps) <= 1 THEN 0 ELSE Len(wps) - 2
\* range(len(waypoints) - 1)
NumSegments(wps) == IF Len(wps) = 0 THEN 0 ELSE Len(wps) - 1

\* LineString([waypoints[i], waypoints[i+1]]), i counted from 1
Segment(wps, i) == <<wps[i], wps[i + 1]>>

\* np.mean([segment.coords[0][1], segment.coords[1][1]])
avg_lat(segment) == (segment[1][2] + segment[2][2]) \div 2

MinOfPair(buffer_lat, buffer_lon) == IF buffer_lat <= buffer_lon THEN buffer_lat ELSE buffer_lon
\* max(buffer_lat, buffer_lon)
MaxOfPair(buffer_lat, buffer_lon) == IF buffer_lat >= buffer_lon THEN buffer_lat ELSE buffer_lon

\* the radius handed to segment.buffer for one segment
SegmentRadius(meters, segment) ==
    LET d == meters_to_degrees(meters, avg_lat(segment))
    IN MaxOfPair(d[1], d[2])

ToleranceNotHalved(radius) == radius
\* tolerance = buffer_distance_degrees / 2
Tolerance(radius) == radius \div 2

\* how many polygons polygonize(linemerge(rings)) may yield for n rings
PolygonizeCounts(n) == IF n = 0 THEN {0} ELSE 0..MaxK

SelectGeofenceWrapAll(polys) ==
    IF Len(polys) /= 1 THEN [ok |-> TRUE, value |-> [type |-> "MultiPolygon", geoms |-> polys]]
    ELSE [ok |-> TRUE, value |-> [type |-> "Polygon", geoms |-> <<polys[1]>>]]
SelectGeofenceWrapOne(polys) ==
    IF Len(polys) >= 1 THEN [ok |-> TRUE, value |-> [type |-> "MultiPolygon", geoms |-> polys]]
    ELSE [ok |-> FALSE, value |-> None]
\* MultiPolygon(polygons) if len(polygons) > 1 else polygons[0]
SelectGeofence(polys) ==
    IF Len(polys) > 1 THEN [ok |-> TRUE, value |-> [type |-> "MultiPolygon", geoms |-> polys]]
    ELSE IF Len(polys) = 1 THEN [ok |-> TRUE, value |-> [type |-> "Polygon", geoms |-> <<polys[1]>>]]
    ELSE [ok |-> FALSE, value |-> None]

VARIABLES
    pc,                        \* position in the running function
    op,                        \* the function called
    waypoints,                 \* create_geofence: argument
    buffer_distance_meters,    \* create_geofence: argument
    line_segments,             \* create_geofence: local list
    buffered_segments,         \* create_geofence: local list, [segment, radius]
    buffer_distance_degrees,   \* create_geofence: local, Unbound before the loop
    polygons,                  \* create_geofence: local list
    geofence,                  \* the value being built / returned, None if none
    returned,                  \* TRUE once the function has returned a value
    simplify_calls,            \* tolerances of the simplify calls of create_geofence
    err,                       \* the exception raised, NoError if none
    arg,                       \* save_geofence_to_poly: the geofence argument
    save_polygons,             \* save_geofence_to_poly: local list polygons
    simplify_arg,              \* simplify_geofence: the geofence argument
    simplified_segments,       \* simplify_geofence: local list
    merged_lines,              \* simplify_geofence: [type, n] of linemerge's result
    file,                      \* "unopened" | "open" | "closed"
    lines,                     \* the lines written to the file, in order
    ring_lines                 \* per polygon, the vertex lines written for its ring

vars == <<pc, op, waypoints, buffer_distance_meters, line_segments, buffered_segments,
          buffer_distance_degrees, polygons, geofence, returned, simplify_calls, err,
          arg, save_polygons, simplify_arg, simplified_segments, merged_lines, file,
          lines, ring_lines>>

createVars == <<waypoints, buffer_distance_meters, line_segments, buffered_segments,
                buffer_distance_degrees, simplify_calls>>
simplifyVars == <<simplify_arg, simplified_segments, merged_lines>>
saveVars == <<arg, save_polygons>>
fileVars == <<file, lines, ring_lines>>

Init ==
    /\ pc = "idle"
    /\ op = "none"
    /\ waypoints = <<>>
    /\ buffer_distance_meters = 0
    /\ line_segments = <<>>
    /\ buffered_segments = <<>>
    /\ buffer_distance_degrees = Unbound
    /\ polygons = <<>>
    /\ geofence = None
    /\ returned = FALSE
    /\ simplify_calls = <<>>
    /\ err = NoError
    /\ arg = None
    /\ save_polygons = <<>>
    /\ simplify_arg = None
    /\ simplified_segments = <<>>
    /\ merged_lines = [type |-> "none", n |-> 0]
    /\ file = "unopened"
    /\ lines = <<>>
    /\ ring_lines = <<>>

\* create_geofence(waypoints, buffer_distance_meters) is entered
CallCreate ==
    /\ pc = "idle"
    /\ \E wps \in WaypointLists, m \in BufferDistances :
        /\ waypoints' = wps
        /\ buffer_distance_meters' = m
    /\ op' = "create_geofence"
    /\ pc' = "cg_segments"
    /\ UNCHANGED <<line_segments, buffered_segments, buffer_distance_degrees, polygons,
                   geofence, returned, simplify_calls, err>>
    /\ UNCHANGED simplifyVars
    /\ UNCHANGED saveVars
    /\ UNCHANGED fileVars

\* one iteration of the first loop, or its exit
BuildSegment ==
    /\ pc = "cg_segments"
    /\ IF Len(line_segments) < NumSegments(waypoints)
       THEN /\ line_segments' = Append(line_segments, Segment(waypoints, Len(line_segments) + 1))
            /\ pc' = pc
       ELSE /\ line_segments' = line_segments
            /\ pc' = "cg_buffer"
    /\ UNCHANGED <<op, waypoints, buffer_distance_meters, buffered_segments,
                   buffer_distance_degrees, polygons, geofence, returned, simplify_calls,
                   err>>
    /\ UNCHANGED simplifyVars
    /\ UNCHANGED saveVars
    /\ UNCHANGED fileVars

\* one iteration of the buffering loop, or its exit
BufferSegment ==
    /\ pc = "cg_buffer"
    /\ IF Len(buffered_segments) < Len(line_segments)
       THEN LET segment == line_segments[Len(buffered_segments) + 1]
                radius == SegmentRadius(buffer_distance_meters, segment)
            IN /\ buffer_distance_degrees' = radius
               /\ buffered_segments' =
                    Append(buffered_segments, [segment |-> segment, radius |-> radius])
               /\ pc' = pc
       ELSE /\ UNCHANGED <<buffer_distance_degrees, buffered_segments>>
            /\ pc' = "cg_stitch"
    /\ UNCHANGED <<op, waypoints, buffer_distance_meters, line_segments, polygons, geofence,
                   returned, simplify_calls, err>>
    /\ UNCHANGED simplifyVars
    /\ UNCHANGED saveVars
    /\ UNCHANGED fileVars

\* linemerge, polygonize and the choice between Polygon and MultiPolygon
Stitch ==
    /\ pc = "cg_stitch"
    /\ \E k \in PolygonizeCounts(Len(buffered_segments)) :
        LET sel == SelectGeofence(Iota(k))
        IN /\ polygons' = Iota(k)
           /\ IF sel.ok
              THEN /\ geofence' = sel.value
                   /\ pc' = "cg_simplify"
                   /\ err' = err
              ELSE /\ geofence' = geofence
                   /\ pc' = "failed"
                   /\ err' = [kind |-> "IndexError", stage |-> "Stitcher"]
    /\ UNCHANGED <<op, returned>>
    /\ UNCHANGED createVars
    /\ UNCHANGED simplifyVars
    /\ UNCHANGED saveVars
    /\ UNCHANGED fileVars

\* geofence.simplify(tolerance=buffer_distance_degrees / 2, preserve_topology=True)
\* and the return
SimplifyAndReturn ==
    /\ pc = "cg_simplify"
    /\ IF buffer_distance_degrees = Unbound
       THEN /\ pc' = "failed"
            /\ err' = [kind |-> "UnboundLocalError", stage |-> "Simplifier"]
            /\ UNCHANGED <<simplify_calls, returned>>
       ELSE /\ simplify_calls' = Append(simplify_calls, Tolerance(buffer_distance_degrees))
            /\ returned' = TRUE
            /\ pc' = "done"
            /\ err' = err
    /\ UNCHANGED <<op, waypoints, buffer_distance_meters, line_segments, buffered_segments,
                   buffer_distance_degrees, polygons, geofence>>
    /\ UNCHANGED simplifyVars
    /\ UNCHANGED saveVars
    /\ UNCHANGED fileVars

\* --------------------------------------------------- simplify_geofence
MergedToGeofenceDropLast(merged) ==
    IF merged.type = "LineString"
    THEN [ok |-> TRUE, value |-> [type |-> "Polygon", geoms |-> Iota(1)]]
    ELSE IF merged.type = "MultiLineString"
    THEN [ok |-> TRUE,
          value |-> [type |-> "MultiPolygon",
                     geoms |-> Iota(IF merged.n = 0 THEN 0 ELSE merged.n - 1)]]
    ELSE [ok |-> FALSE, value |-> None]
\* lines 90-96: Polygon(merged_lines), MultiPolygon of one Polygon per line,
\* or ValueError
MergedToGeofence(merged) ==
    IF merged.type = "LineString"
    THEN [ok |-> TRUE, value |-> [type |-> "Polygon", geoms |-> Iota(1)]]
    ELSE IF merged.type = "MultiLineString"
    THEN [ok |-> TRUE, value |-> [type |-> "MultiPolygon", geoms |-> Iota(merged.n)]]
    ELSE [ok |-> FALSE, value |-> None]

\* what linemerge may return for n rings: one line, several lines, and for no
\* ring at all an empty collection of either kind
LineMergeResults(n) ==
    IF n = 0
    THEN {[type |-> "MultiLineString", n |-> 0], [type |-> "GeometryCollection", n |-> 0]}
    ELSE {[type |-> IF m = 1 THEN "LineString" ELSE "MultiLineString", n |-> m] : m \in 1..n}

\* simplify_geofence(geofence, buffer_distance_meters, tolerance) is entered;
\* segments = geofence.geoms or [geofence]
CallSimplify ==
    /\ pc = "idle"
    /\ \E g \in SimplifyInputs : simplify_arg' = g
    /\ op' = "simplify_geofence"
    /\ pc' = "sg_simplify"
    /\ UNCHANGED <<polygons, geofence, returned, err>>
    /\ UNCHANGED createVars
    /\ UNCHANGED <<simplified_segments, merged_lines>>
    /\ UNCHANGED saveVars
    /\ UNCHANGED fileVars

\* one iteration of the per-segment loop (the radius computed there is never
\* read), or its exit
SimplifySegment ==
    /\ pc = "sg_simplify"
    /\ IF Len(simplified_segments) < Len(simplify_arg.geoms)
       THEN /\ simplified_segments' =
                 Append(simplified_segments, simplify_arg.geoms[Len(simplified_segments) + 1])
            /\ pc' = pc
       ELSE /\ simplified_segments' = simplified_segments
            /\ pc' = "sg_merge"
    /\ UNCHANGED <<op, polygons, geofence, returned, err, simplify_arg, merged_lines>>
    /\ UNCHANGED createVars
    /\ UNCHANGED saveVars
    /\ UNCHANGED fileVars

\* merged_lines = linemerge([seg.exterior for seg in simplified_segments])
MergeLines ==
    /\ pc = "sg_merge"
    /\ \E r \in LineMergeResults(Len(simplified_segments)) : merged_lines' = r
    /\ pc' = "sg_build"
    /\ UNCHANGED <<op, polygons, geofence, returned, err, simplify_arg, simplified_segments>>
    /\ UNCHANGED createVars
    /\ UNCHANGED saveVars
    /\ UNCHANGED fileVars

\* lines 90-101: build the geofence from the merge result, simplify it, return
BuildAndReturn ==
    /\ pc = "sg_build"
    /\ LET built == MergedToGeofence(merged_lines)
       IN IF built.ok
          THEN /\ geofence' = built.value
               /\ returned' = TRUE
               /\ pc' = "done"
               /\ err' = err
          ELSE /\ geofence' = geofence
               /\ returned' = returned
               /\ pc' = "failed"
               /\ err' = [kind |-> "ValueError", stage |-> "Simplifier"]
    /\ UNCHANGED <<op, polygons>>
    /\ UNCHANGED createVars
    /\ UNCHANGED simplifyVars
    /\ UNCHANGED saveVars
    /\ UNCHANGED fileVars

\* ----------------------------------------------- save_geofence_to_poly
\* a line of the file: its text, and for a vertex line the two printed numbers
TextLine(t) == [text |-> t, lat |-> 0, lon |-> 0]
\* file.write("#saved by Python Script\n"), as a one-line sequence
Header == <<TextLine("#saved by Python Script")>>
\* file.write("END\n"), as a one-line sequence
EndLine == <<TextLine("END")>>

\* "%.10f": round to the 10th fractional digit
Fmt(x) == (x + (FormatUnit \div 2)) \div FormatUnit

\* f"{lat:.10f} {lon:.10f}\n" for a (lon, lat) coordinate
VertexLine(c) == [text |-> "vertex", lat |-> Fmt(c[2]), lon |-> Fmt(c[1])]

NeedsClosingInverted(coords) == coords[1] = coords[Len(coords)]
\* coords[0] != coords[-1]
NeedsClosing(coords) == coords[1] /= coords[Len(coords)]

\* the vertex lines of one ring: lines 118-123
RingVertexLines(coords) ==
    [i \in 1..Len(coords) |-> VertexLine(coords[i])]
        \o (IF NeedsClosing(coords) THEN <<VertexLine(coords[1])>> ELSE <<>>)

SeparatorAlways(n) == n >= 1
\* len(polygons) > 1
Separator(n) == n > 1

IsPolygonOrMultiAnything(g) == TRUE
\* isinstance(geofence, MultiPolygon) or isinstance(geofence, Polygon)
IsPolygonOrMulti(g) == g.type \in {"MultiPolygon", "Polygon"}

FileAfterRaiseLeftOpen == "open"
\* the with statement closes the file when the block raises
FileAfterRaise == "closed"

\* save_geofence_to_poly(geofence, filename) is entered
CallSave ==
    /\ pc = "idle"
    /\ \E g \in SaveInputs : arg' = g
    /\ op' = "save_geofence_to_poly"
    /\ pc' = "sv_open"
    /\ UNCHANGED <<polygons, geofence, returned, err, save_polygons>>
    /\ UNCHANGED createVars
    /\ UNCHANGED simplifyVars
    /\ UNCHANGED fileVars

\* with open(filename, 'w') as file, and the header line
SaveOpen ==
    /\ pc = "sv_open"
    /\ file' = "open"
    /\ lines' = Header
    /\ pc' = "sv_dispatch"
    /\ UNCHANGED <<op, polygons, geofence, returned, err, ring_lines>>
    /\ UNCHANGED saveVars
    /\ UNCHANGED createVars
    /\ UNCHANGED simplifyVars

\* lines 109-114: the polygons to write, or ValueError (the with block is left)
SaveDispatch ==
    /\ pc = "sv_dispatch"
    /\ IF IsPolygonOrMulti(arg)
       THEN /\ save_polygons' = arg.geoms
            /\ pc' = "sv_polygon"
            /\ UNCHANGED <<err, file>>
       ELSE /\ save_polygons' = save_polygons
            /\ pc' = "failed"
            /\ err' = [kind |-> "ValueError", stage |-> "Serializer"]
            /\ file' = FileAfterRaise
    /\ UNCHANGED <<op, polygons, geofence, returned, arg, lines, ring_lines>>
    /\ UNCHANGED createVars
    /\ UNCHANGED simplifyVars

\* one iteration of the polygon loop (lines 116-127)
SaveWritePolygon ==
    /\ pc = "sv_polygon"
    /\ Len(ring_lines) < Len(save_polygons)
    /\ file = "open"
    /\ LET coords == save_polygons[Len(ring_lines) + 1]
           written == RingVertexLines(coords)
       IN /\ ring_lines' = Append(ring_lines, written)
          /\ lines' = lines \o written
                        \o (IF Separator(Len(save_polygons)) THEN EndLine ELSE <<>>)
    /\ UNCHANGED <<pc, op, polygons, geofence, returned, err, file>>
    /\ UNCHANGED saveVars
    /\ UNCHANGED createVars
    /\ UNCHANGED simplifyVars

\* line 130, the final END
SaveFinalEnd ==
    /\ pc = "sv_polygon"
    /\ Len(ring_lines) = Len(save_polygons)
    /\ file = "open"
    /\ lines' = lines \o EndLine
    /\ pc' = "sv_exit"
    /\ UNCHANGED <<op, polygons, geofence, returned, err, file, ring_lines>>
    /\ UNCHANGED saveVars
    /\ UNCHANGED createVars
    /\ UNCHANGED simplifyVars

\* the with block is left normally: the file is closed, the function returns
SaveExit ==
    /\ pc = "sv_exit"
    /\ file' = "closed"
    /\ pc' = "done"
    /\ UNCHANGED <<op, polygons, geofence, returned, err, lines, ring_lines>>
    /\ UNCHANGED saveVars
    /\ UNCHANGED createVars
    /\ UNCHANGED simplifyVars

\* ------------------------------------------------------ specification
Next ==
    \/ CallCreate
    \/ BuildSegment
    \/ BufferSegment
    \/ Stitch
    \/ SimplifyAndReturn
    \/ CallSimplify
    \/ SimplifySegment
    \/ MergeLines
    \/ BuildAndReturn
    \/ CallSave
    \/ SaveOpen
    \/ SaveDispatch
    \/ SaveWritePolygon
    \/ SaveFinalEnd
    \/ SaveExit

Spec == Init /\ [][Next]_vars

\* the code is one synchronous thread: a started call runs on until it
\* returns or raises
FairSpec == Spec /\ WF_vars(Next)

Terminal == pc \in {"done", "failed"}

\* ------------------------------------------------------------- claims
InCreate == op = "create_geofence"
InSimplify == op = "simplify_geofence"
InSave == op = "save_geofence_to_poly"
PastSegmentBuffer == pc \in {"cg_stitch", "cg_simplify", "done", "failed"}

\* C1: every segment's buffer radius is one of the two conversions of the
\* requested distance at the segment's mean latitude, and is at least as
\* large as each of them.
C1_RadiusCoversBothConversions ==
    InCreate =>
        \A i \in 1..Len(buffered_segments) :
            LET b == buffered_segments[i]
                dlat == degrees_latitude(buffer_distance_meters)
                dlon == degrees_longitude(buffer_distance_meters, avg_lat(b.segment))
            IN /\ b.radius >= dlat
               /\ b.radius >= dlon
               /\ b.radius \in {dlat, dlon}

C1_Witness ==
    /\ InCreate
    /\ pc = "cg_stitch"
    /\ Len(buffered_segments) >= 2
    /\ buffered_segments[1].radius /= buffered_segments[2].radius

\* C2: for n >= 2 waypoints, when stitching starts (and ever after) there are
\* exactly n - 1 buffered polygons, the i-th built from waypoints i and i+1.
C2_OnePolygonPerSegment ==
    (InCreate /\ PastSegmentBuffer /\ Len(waypoints) >= 2) =>
        /\ Len(buffered_segments) = Len(waypoints) - 1
        /\ \A i \in 1..Len(buffered_segments) :
              buffered_segments[i].segment = <<waypoints[i], waypoints[i + 1]>>

C2_Witness ==
    /\ InCreate
    /\ pc = "cg_stitch"
    /\ Len(waypoints) >= 3
    /\ Len(buffered_segments) = Len(waypoints) - 1

\* C3 as stated: with fewer than 2 waypoints create_geofence ends in an
\* InputError raised by the Segment Buffer stage, returning no geofence.
C3_InputErrorFromSegmentBuffer ==
    (InCreate /\ Len(waypoints) < 2 /\ Terminal) =>
        /\ pc = "failed"
        /\ err = [kind |-> "InputError", stage |-> "SegmentBuffer"]
        /\ ~returned

\* C3 as amended: with fewer than 2 waypoints the Segment Buffer stage
\* completes with no polygon, the call never reaches simplification or a
\* return, and it ends in the IndexError raised by the Stitcher when it takes
\* the first of zero polygons; no geofence is returned.
C3_FailsInStitcher ==
    (InCreate /\ Len(waypoints) < 2) =>
        /\ pc \notin {"cg_simplify", "done"}
        /\ ~returned
        /\ geofence = None
        /\ PastSegmentBuffer => buffered_segments = <<>>
        /\ Terminal =>
              /\ pc = "failed"
              /\ err = [kind |-> "IndexError", stage |-> "Stitcher"]
              /\ polygons = <<>>

C3_Witness ==
    /\ InCreate
    /\ Len(waypoints) = 1
    /\ pc = "failed"

\* C4: once the Stitcher has run, k = 1 polygon gives that Polygon, k > 1
\* gives a MultiPolygon of all k, and k = 0 is an error with no geofence.
C4_ShapeByPolygonCount ==
    (InCreate /\ pc \in {"cg_simplify", "done", "failed"}) =>
        LET k == Len(polygons)
        IN /\ k = 1 => /\ geofence = [type |-> "Polygon", geoms |-> <<polygons[1]>>]
                       /\ pc /= "failed"
           /\ k > 1 => /\ geofence = [type |-> "MultiPolygon", geoms |-> polygons]
                       /\ Len(geofence.geoms) = k
                       /\ pc /= "failed"
           /\ k = 0 => /\ pc = "failed"
                       /\ err /= NoError
                       /\ ~returned
                       /\ geofence = None

C4_Witness ==
    /\ InCreate
    /\ pc = "done"
    /\ Len(waypoints) >= 2
    /\ Len(polygons) > 1
    /\ geofence.type = "MultiPolygon"

\* C5: the vertex lines written for a ring begin and end with the same line;
\* a ring of k coordinates yields k lines when its first and last coordinates
\* are equal and k + 1 lines, the last repeating the first, when they differ.
C5_EmittedRingsClosed ==
    InSave =>
        \A i \in 1..Len(ring_lines) :
            LET w == ring_lines[i]
                coords == arg.geoms[i]
                k == Len(coords)
            IN /\ Len(w) >= k
               /\ \A j \in 1..k : w[j] = VertexLine(coords[j])
               /\ w[1] = w[Len(w)]
               /\ coords[1] = coords[k] => Len(w) = k
               /\ coords[1] /= coords[k] => Len(w) = k + 1

\* an unclosed ring whose two ends print alike has been written
C5_Witness ==
    /\ InSave
    /\ pc = "done"
    /\ \E i \in 1..Len(ring_lines) :
          /\ Len(arg.geoms[i]) = 2
          /\ arg.geoms[i][1] /= arg.geoms[i][2]
          /\ VertexLine(arg.geoms[i][1]) = VertexLine(arg.geoms[i][2])
          /\ Len(ring_lines[i]) = 3
    /\ \E i \in 1..Len(ring_lines) :
          /\ arg.geoms[i][1] = arg.geoms[i][Len(arg.geoms[i])]
          /\ Len(ring_lines[i]) = Len(arg.geoms[i])

RECURSIVE FileBody(_, _)
\* the lines after the header for the rings written so far: each ring's
\* vertex lines, followed by END when the geofence holds n > 1 polygons
FileBody(written, n) ==
    IF written = <<>> THEN <<>>
    ELSE written[1] \o (IF n > 1 THEN <<TextLine("END")>> ELSE <<>>)
            \o FileBody(Tail(written), n)

EndCount == Cardinality({i \in 1..Len(lines) : lines[i].text = "END"})

\* C6: the file is the header, then each polygon's vertex lines in order,
\* each followed by END when there is more than one polygon, then a final
\* END and nothing after it; a single polygon is followed by exactly one END.
C6_LineSequence ==
    (InSave /\ file /= "unopened") =>
        /\ lines = <<TextLine("#saved by Python Script")>>
                     \o FileBody(ring_lines, Len(save_polygons))
                     \o (IF pc \in {"sv_exit", "done"} THEN <<TextLine("END")>> ELSE <<>>)
        /\ pc = "done" =>
              /\ Len(ring_lines) = Len(arg.geoms)
              /\ lines[Len(lines)].text = "END"
              /\ Len(arg.geoms) = 1 => EndCount = 1
              /\ Len(arg.geoms) > 1 => EndCount = Len(arg.geoms) + 1

C6_Witness ==
    /\ InSave
    /\ pc = "done"
    /\ Len(arg.geoms) = 2
    /\ EndCount = 3

\* C7: an input that is neither a Polygon nor a MultiPolygon makes
\* save_geofence_to_poly fail, with no vertex line and no END written.
C7_RejectsOtherInputs ==
    (InSave /\ arg.type \notin {"Polygon", "MultiPolygon"}) =>
        /\ pc \in {"sv_open", "sv_dispatch", "failed"}
        /\ \A i \in 1..Len(lines) : lines[i].text \notin {"vertex", "END"}
        /\ pc = "failed" => err = [kind |-> "ValueError", stage |-> "Serializer"]

C7_Witness ==
    /\ InSave
    /\ arg.type = "LineString"
    /\ pc = "failed"
    /\ lines = Header

\* C8: in simplify_geofence a single merged line gives a Polygon, a set of
\* merged lines gives a MultiPolygon with one polygon per line, and any other
\* merge result raises an error and returns nothing.
C8_MergeResultDecidesOutcome ==
    (InSimplify /\ Terminal) =>
        /\ merged_lines.type = "LineString" =>
              /\ pc = "done"
              /\ returned
              /\ geofence = [type |-> "Polygon", geoms |-> <<1>>]
        /\ merged_lines.type = "MultiLineString" =>
              /\ pc = "done"
              /\ returned
              /\ geofence.type = "MultiPolygon"
              /\ Len(geofence.geoms) = merged_lines.n
              /\ \A i \in 1..merged_lines.n : geofence.geoms[i] = i
        /\ merged_lines.type \notin {"LineString", "MultiLineString"} =>
              /\ pc = "failed"
              /\ err = [kind |-> "ValueError", stage |-> "Simplifier"]
              /\ ~returned
              /\ geofence = None

C8_Witness ==
    /\ InSimplify
    /\ pc = "done"
    /\ merged_lines.type = "MultiLineString"
    /\ merged_lines.n = 2
    /\ Len(geofence.geoms) = 2

\* C9: create_geofence simplifies exactly once, only after stitching has
\* produced the geofence, with half the radius of the last segment as
\* tolerance, whatever the radii of the earlier segments.
C9_ToleranceFromLastSegment ==
    InCreate =>
        /\ Len(simplify_calls) <= 1
        /\ simplify_calls /= <<>> => (pc = "done" /\ geofence /= None)
        /\ pc = "done" =>
              LET n == Len(waypoints)
                  last == <<waypoints[n - 1], waypoints[n]>>
                  lat == (last[1][2] + last[2][2]) \div 2
                  dlat == degrees_latitude(buffer_distance_meters)
                  dlon == degrees_longitude(buffer_distance_meters, lat)
                  r == IF dlat >= dlon THEN dlat ELSE dlon
              IN /\ Len(simplify_calls) = 1
                 /\ 2 * simplify_calls[1] <= r
                 /\ r <= 2 * simplify_calls[1] + 1

C9_Witness ==
    /\ InCreate
    /\ pc = "done"
    /\ Len(buffered_segments) >= 2
    /\ buffered_segments[1].radius > buffered_segments[Len(buffered_segments)].radius + 1
    /\ Len(simplify_calls) = 1

\* C10: once opened the file is eventually closed, on the normal path and on
\* the ValueError path alike; the call never ends with the file open; and a
\* closed file stays closed and is not written again.
C10_FileScoped ==
    /\ []((InSave /\ Terminal) => file = "closed")
    /\ [][file = "closed" => (file' = "closed" /\ lines' = lines)]_vars
    /\ (file = "open") ~> (file = "closed")

C10_Witness ==
    /\ InSave
    /\ pc = "failed"
    /\ file = "closed"
    /\ lines = Header

====
